---- MODULE Spec2Model ----
(***************************************************************************)
(* A model of the chained hash map of src/main.js: class Node (a chain     *)
(* entry) and class HashMap (hash, set, get, has, remove, length, clear,   *)
(* keys, values, entries, resize).                                         *)
(*                                                                         *)
(* A key is the sequence of its character codes, a chain (the linked list  *)
(* hanging off one bucket slot) is the sequence of its nodes from the head *)
(* to the tail, and the bucket array is a function on 0..capacity-1.       *)
(* The load factor is the rational lfNum / lfDen.                          *)
(***************************************************************************)
EXTENDS Integers, Sequences, FiniteSets, TLC

VARIABLES
  map,    \* the HashMap under test
  ref,    \* a second HashMap, of capacity RefCapacity, given the same calls
  model,  \* history: the stored keys, each with the value of its last set
  last,   \* history: the last call, its result and the map before it
  nops,   \* history: the number of calls made
  snap    \* the array the caller holds from its last keys/values/entries call

vars == <<map, ref, model, last, nops, snap>>

\* ------------------------------------------------------------------ bounds

\* Number of mutating calls (set, remove, clear) in one run.
MaxOps == 6

\* Number of distinct single-character keys of the insertion scenario.
NumScenarioKeys == 14

\* Number of calls in one run with other load factors and direct resizes.
MaxCalls == 4

\* Largest capacity a call may leave in such a run.
MaxCapacity == 64

\* --------------------------------------------------- constants of the code

\* constructor(initialSize = 16, loadFactor = 0.75)
DefaultCapacity == 16
LoadFactorNum == 3
LoadFactorDen == 4
\* const primeNumber = 31
primeNumber == 31

\* ------------------------------------------------------------ input domains

\* "", "a", "c", "ab": "a" and "ab" share a bucket under every power-of-two
\* capacity up to 32, "a" and "c" under capacities 1 and 2.
Keys == {<< >>, <<97>>, <<99>>, <<97, 98>>}
Values == {"red", "blue"}
\* The value get returns for a key that is not stored.
Undefined == "undefined"
\* Initial capacities of the map under test.
InitCapacities == {1, 2}
\* Capacity of the companion map that never resizes within MaxOps calls.
RefCapacity == 2 * MaxOps
\* Load factors (numerator, denominator) a map may be constructed with:
\* negative, zero, small, the default, and larger than one.
LoadFactors == {<<0 - 1, 4>>, <<0, 4>>, <<1, 8>>, <<LoadFactorNum, LoadFactorDen>>, <<8, 4>>}
\* Capacities resize is called with directly.
ResizeCapacities == {1, 3}
\* "a", "b", ... : the keys of the insertion scenario.
ScenarioKeys == {<<96 + i>> : i \in 1..NumScenarioKeys}

\* ------------------------------------------------------------------- Node

Node(key, value) == [key |-> key, value |-> value]

\* ---------------------------------------------------------------- HashMap

\* new HashMap(initialSize, loadFactor). The fields after size record the
\* execution and are read by no method: resizes counts the calls of resize,
\* thrown says that set threw, depth is the number of resize calls in
\* progress, maxDepth the largest depth during the last call made from
\* outside, enclosing the number of entries the innermost resize in progress
\* re-inserts (NoResize if there is none), and descends says that every resize
\* entered within another one had fewer entries to re-insert than that one.
NoResize == 0 - 1
NewHashMap(initialSize, num, den) ==
  [ capacity  |-> initialSize,
    lfNum     |-> num,
    lfDen     |-> den,
    buckets   |-> [i \in 0..(initialSize - 1) |-> << >>],
    size      |-> 0,
    resizes   |-> 0,
    thrown    |-> FALSE,
    depth     |-> 0,
    maxDepth  |-> 0,
    enclosing |-> NoResize,
    descends  |-> TRUE ]

\* The fields of the HashMap object itself.
Fields(m) ==
  [ capacity |-> m.capacity, lfNum |-> m.lfNum, lfDen |-> m.lfDen,
    buckets |-> m.buckets, size |-> m.size ]

\* A call made from outside (no resize in progress) starts a new record of
\* the nesting depth.
Enter(m) == IF m.depth = 0 THEN [m EXCEPT !.maxDepth = 0] ELSE m

\* hash without the reduction modulo the capacity.
RECURSIVE hashSumFrom(_, _, _)
hashSumFrom(key, i, hashCode) ==
  IF i > Len(key) THEN hashCode
  ELSE hashSumFrom(key, i + 1, primeNumber * hashCode + key[i])
hashSum(key, capacity) == hashSumFrom(key, 1, 0)

RECURSIVE hashFrom(_, _, _, _)
hashFrom(key, i, hashCode, capacity) ==
  IF i > Len(key) THEN hashCode
  ELSE hashFrom(key, i + 1, (primeNumber * hashCode + key[i]) % capacity, capacity)

hash(key, capacity) == hashFrom(key, 1, 0, capacity)

\* Position of the first node of chain with this key, 0 if there is none.
FindNode(chain, key) ==
  IF \E i \in 1..Len(chain) : chain[i].key = key
  THEN CHOOSE i \in 1..Len(chain) :
         /\ chain[i].key = key
         /\ \A j \in 1..(i - 1) : chain[j].key # key
  ELSE 0

\* if (this.size / this.capacity > this.loadFactor)
NeedsResizeAtOrAbove(m) == m.size * m.lfDen >= m.lfNum * m.capacity
NeedsResize(m) == m.size * m.lfDen > m.lfNum * m.capacity

\* The chain of a bucket after set has placed (key, value) in it.
ChainSet(chain, key, value) ==
  LET at == FindNode(chain, key) IN
  IF chain = << >> THEN << Node(key, value) >>
  ELSE IF at # 0 THEN [chain EXCEPT ![at].value = value]
  ELSE Append(chain, Node(key, value))

\* All nodes of the bucket array, buckets in array order, each chain from its
\* head: the order of the loops of keys, values, entries and resize. The
\* slots i..n-1 are walked as two halves, one after the other.
RECURSIVE NodesFrom(_, _, _)
NodesFrom(buckets, i, n) ==
  IF i >= n THEN << >>
  ELSE IF n - i = 1 THEN buckets[i]
  ELSE NodesFrom(buckets, i, (i + n) \div 2) \o NodesFrom(buckets, (i + n) \div 2, n)

Nodes(m) == NodesFrom(m.buckets, 0, Cardinality(DOMAIN m.buckets))

RECURSIVE Set(_, _, _)
RECURSIVE Resize(_, _)
RECURSIVE Reinsert(_, _)

\* set computing the index of the key before the load-factor check.
SetIndexFirst(m, key, value) ==
  LET m0    == Enter(m)
      index == hash(key, m0.capacity)
      m1    == IF NeedsResize(m0) THEN Resize(m0, m0.capacity * 2) ELSE m0
      m2    == [m1 EXCEPT !.size = @ + 1]
  IN IF index < 0 \/ index >= m2.capacity
     THEN [m2 EXCEPT !.thrown = TRUE]
     ELSE [m2 EXCEPT !.buckets[index] = ChainSet(@, key, value)]
\* set(key, value)
Set(m, key, value) ==
  LET m0    == Enter(m)
      m1    == IF NeedsResize(m0) THEN Resize(m0, m0.capacity * 2) ELSE m0
      index == hash(key, m1.capacity)
      m2    == [m1 EXCEPT !.size = @ + 1]
  IN IF index < 0 \/ index >= m2.capacity
     THEN [m2 EXCEPT !.thrown = TRUE]
     ELSE [m2 EXCEPT !.buckets[index] = ChainSet(@, key, value)]

\* The loop of resize: this.set(bucket.key, bucket.value) for each old node;
\* a set that throws ends the loop.
Reinsert(m, nodes) ==
  IF nodes = << >> THEN m
  ELSE LET next == Set(m, Head(nodes).key, Head(nodes).value)
       IN IF next.thrown THEN next ELSE Reinsert(next, Tail(nodes))

\* resize(capacity)
ResizeKeepingSlots(m, capacity) ==
  [m EXCEPT !.capacity = capacity,
            !.buckets = [i \in 0..(capacity - 1) |->
                           IF i < m.capacity THEN m.buckets[i] ELSE << >>],
            !.resizes = @ + 1]
\* resize without `this.size = 0`.
ResizeKeepingSize(m, capacity) ==
  LET old  == Nodes(m)
      m0   == Enter(m)
      done == Reinsert([m0 EXCEPT !.capacity = capacity,
                                  !.buckets = [i \in 0..(capacity - 1) |-> << >>],
                                  !.resizes = @ + 1,
                                  !.depth = @ + 1,
                                  !.maxDepth = IF @ > m.depth THEN @ ELSE m.depth + 1,
                                  !.enclosing = Len(old)],
                       old)
  IN [done EXCEPT !.depth = m.depth, !.enclosing = m.enclosing]
\* resize re-inserting only the head of each old chain.
ResizeHeadsOnly(m, capacity) ==
  LET heads == [i \in DOMAIN m.buckets |->
                  IF m.buckets[i] = << >> THEN << >> ELSE << m.buckets[i][1] >>]
      old   == NodesFrom(heads, 0, Cardinality(DOMAIN m.buckets))
      m0    == Enter(m)
      done  == Reinsert([m0 EXCEPT !.capacity = capacity,
                                   !.size = 0,
                                   !.buckets = [i \in 0..(capacity - 1) |-> << >>],
                                   !.resizes = @ + 1,
                                   !.depth = @ + 1,
                                   !.maxDepth = IF @ > m.depth THEN @ ELSE m.depth + 1,
                                   !.enclosing = Len(old)],
                        old)
  IN [done EXCEPT !.depth = m.depth, !.enclosing = m.enclosing]
\* resize re-inserting into the old chains, extended to the new capacity.
ResizeIntoOldChains(m, capacity) ==
  LET old  == Nodes(m)
      m0   == Enter(m)
      done == Reinsert([m0 EXCEPT !.capacity = capacity,
                                  !.size = 0,
                                  !.buckets = [i \in 0..(capacity - 1) |->
                                                 IF i < m.capacity THEN m.buckets[i] ELSE << >>],
                                  !.resizes = @ + 1,
                                  !.depth = @ + 1,
                                  !.maxDepth = IF @ > m.depth THEN @ ELSE m.depth + 1,
                                  !.enclosing = Len(old),
                                  !.descends = @ /\ (m.enclosing = NoResize \/ Len(old) < m.enclosing)],
                       old)
  IN IF m.enclosing # NoResize /\ Len(old) >= m.enclosing
     THEN [m EXCEPT !.descends = FALSE]
     ELSE [done EXCEPT !.depth = m.depth, !.enclosing = m.enclosing]
\* The recursion set -> resize -> set is followed as long as a resize entered
\* within another one has fewer entries to re-insert than that one; the
\* first one that has not is recorded in descends and not followed.
Resize(m, capacity) ==
  LET old  == Nodes(m)
      m0   == Enter(m)
      done == Reinsert([m0 EXCEPT !.capacity = capacity,
                                  !.size = 0,
                                  !.buckets = [i \in 0..(capacity - 1) |-> << >>],
                                  !.resizes = @ + 1,
                                  !.depth = @ + 1,
                                  !.maxDepth = IF @ > m.depth THEN @ ELSE m.depth + 1,
                                  !.enclosing = Len(old),
                                  !.descends = @ /\ (m.enclosing = NoResize \/ Len(old) < m.enclosing)],
                       old)
  IN IF m.enclosing # NoResize /\ Len(old) >= m.enclosing
     THEN [m EXCEPT !.descends = FALSE]
     ELSE [done EXCEPT !.depth = m.depth, !.enclosing = m.enclosing]

\* get(key)
GetHead(m, key) ==
  LET chain == m.buckets[hash(key, m.capacity)] IN
  IF chain = << >> THEN Undefined ELSE chain[1].value
Get(m, key) ==
  LET chain == m.buckets[hash(key, m.capacity)]
      at    == FindNode(chain, key)
  IN IF at = 0 THEN Undefined ELSE chain[at].value

\* has(key)
HasNonEmptyBucket(m, key) == m.buckets[hash(key, m.capacity)] # << >>
Has(m, key) == FindNode(m.buckets[hash(key, m.capacity)], key) # 0

\* The chain cut off before position at.
UnlinkRest(chain, at) == SubSeq(chain, 1, at - 1)
\* The chain without its node at position at.
Unlink(chain, at) ==
  [i \in 1..(Len(chain) - 1) |-> IF i < at THEN chain[i] ELSE chain[i + 1]]

\* remove(key): the map after the call and the value returned.
RemoveKeepingSize(m, key) ==
  LET index == hash(key, m.capacity)
      at    == FindNode(m.buckets[index], key)
  IN IF at = 0 THEN [map |-> m, ret |-> FALSE]
     ELSE [map |-> [m EXCEPT !.buckets[index] = Unlink(@, at)], ret |-> TRUE]
RemoveAlwaysDecrement(m, key) ==
  LET index == hash(key, m.capacity)
      at    == FindNode(m.buckets[index], key)
  IN IF at = 0 THEN [map |-> [m EXCEPT !.size = @ - 1], ret |-> FALSE]
     ELSE [map |-> [m EXCEPT !.buckets[index] = Unlink(@, at),
                             !.size = @ - 1],
           ret |-> TRUE]
Remove(m, key) ==
  LET index == hash(key, m.capacity)
      at    == FindNode(m.buckets[index], key)
  IN IF at = 0 THEN [map |-> m, ret |-> FALSE]
     ELSE [map |-> [m EXCEPT !.buckets[index] = Unlink(@, at),
                             !.size = @ - 1],
           ret |-> TRUE]

\* length()
Length(m) == m.size

\* clear()
ClearOnlySize(m) == [m EXCEPT !.size = 0]
ClearKeepingSize(m) ==
  [m EXCEPT !.buckets = [i \in 0..(m.capacity - 1) |-> << >>]]
Clear(m) ==
  [m EXCEPT !.buckets = [i \in 0..(m.capacity - 1) |-> << >>],
            !.size = 0]

\* keys(), values(), entries()
HashMapKeys(m) == [i \in 1..Len(Nodes(m)) |-> Nodes(m)[i].key]
HashMapValuesOfHeads(m) ==
  LET heads == [i \in 0..(m.capacity - 1) |->
                  [j \in 1..Len(m.buckets[i]) |-> m.buckets[i][1]]]
      all   == NodesFrom(heads, 0, m.capacity)
  IN [i \in 1..Len(all) |-> all[i].value]
HashMapValues(m) == [i \in 1..Len(Nodes(m)) |-> Nodes(m)[i].value]
HashMapEntries(m) ==
  [i \in 1..Len(Nodes(m)) |-> <<Nodes(m)[i].key, Nodes(m)[i].value>>]

\* ---------------------------------------------------------------- history

NoCall == [op |-> "new", key |-> << >>, value |-> Undefined, ret |-> FALSE]

\* The history function without key k.
Without(f, k) == [j \in (DOMAIN f) \ {k} |-> f[j]]
\* The history function with key k bound to v.
With(f, k, v) == [j \in (DOMAIN f) \cup {k} |-> IF j = k THEN v ELSE f[j]]
EmptyModel == [j \in {} |-> Undefined]
\* The caller holds no array yet.
NoSnapshot == [op |-> "none", seq |-> << >>]

\* ------------------------------------------------------------ state machine

\* const test = new HashMap(...)
Init ==
  /\ \E c \in InitCapacities :
       /\ map = NewHashMap(c, LoadFactorNum, LoadFactorDen)
       /\ last = NoCall @@ [pre |-> NewHashMap(c, LoadFactorNum, LoadFactorDen)]
  /\ ref = NewHashMap(RefCapacity, LoadFactorNum, LoadFactorDen)
  /\ model = EmptyModel
  /\ nops = 0
  /\ snap = NoSnapshot

\* test.set(k, v)
SetCall(k, v) ==
  /\ map' = Set(map, k, v)
  /\ ref' = Set(ref, k, v)
  /\ model' = With(model, k, v)
  /\ last' = [op |-> "set", key |-> k, value |-> v, ret |-> FALSE, pre |-> map]
  /\ nops' = nops + 1
  /\ snap' = snap

\* test.remove(k)
RemoveCall(k) ==
  /\ map' = Remove(map, k).map
  /\ ref' = Remove(ref, k).map
  /\ model' = Without(model, k)
  /\ last' = [op |-> "remove", key |-> k, value |-> Undefined,
              ret |-> Remove(map, k).ret, pre |-> map]
  /\ nops' = nops + 1
  /\ snap' = snap

\* test.clear()
ClearCall ==
  /\ map' = Clear(map)
  /\ ref' = Clear(ref)
  /\ model' = EmptyModel
  /\ last' = [op |-> "clear", key |-> << >>, value |-> Undefined,
              ret |-> FALSE, pre |-> map]
  /\ nops' = nops + 1
  /\ snap' = snap

DoSet == nops < MaxOps /\ \E k \in Keys, v \in Values : SetCall(k, v)
DoRemove == nops < MaxOps /\ \E k \in Keys : RemoveCall(k)
DoClear == nops < MaxOps /\ ClearCall

Next == DoSet \/ DoRemove \/ DoClear

Spec == Init /\ [][Next]_vars

\* The insertion scenario: a default map, distinct single-character keys.
InitScenario ==
  /\ map = NewHashMap(DefaultCapacity, LoadFactorNum, LoadFactorDen)
  /\ ref = NewHashMap(4 * DefaultCapacity, LoadFactorNum, LoadFactorDen)
  /\ model = EmptyModel
  /\ last = NoCall @@ [pre |-> NewHashMap(DefaultCapacity, LoadFactorNum, LoadFactorDen)]
  /\ nops = 0
  /\ snap = NoSnapshot

InsertFresh ==
  /\ nops < NumScenarioKeys
  /\ \E k \in ScenarioKeys \ DOMAIN model : SetCall(k, "red")

NextScenario == InsertFresh

SpecScenario == InitScenario /\ [][NextScenario]_vars

\* The methods that only read: none assigns to a field of the map or of a
\* node, and keys, values and entries return an array built by the call.
GetCall(k) ==
  /\ last' = [op |-> "get", key |-> k, value |-> Undefined,
              ret |-> Get(map, k), pre |-> map]
  /\ nops' = nops + 1
  /\ UNCHANGED <<map, ref, model, snap>>

HasCall(k) ==
  /\ last' = [op |-> "has", key |-> k, value |-> Undefined,
              ret |-> Has(map, k), pre |-> map]
  /\ nops' = nops + 1
  /\ UNCHANGED <<map, ref, model, snap>>

LengthCall ==
  /\ last' = [op |-> "length", key |-> << >>, value |-> Undefined,
              ret |-> Length(map), pre |-> map]
  /\ nops' = nops + 1
  /\ UNCHANGED <<map, ref, model, snap>>

\* keys() emptying the chains it walks.
KeysCallDraining ==
  /\ snap' = [op |-> "keys", seq |-> HashMapKeys(map)]
  /\ last' = [op |-> "keys", key |-> << >>, value |-> Undefined,
              ret |-> HashMapKeys(map), pre |-> map]
  /\ nops' = nops + 1
  /\ map' = ClearKeepingSize(map)
  /\ UNCHANGED <<ref, model>>
KeysCall ==
  /\ snap' = [op |-> "keys", seq |-> HashMapKeys(map)]
  /\ last' = [op |-> "keys", key |-> << >>, value |-> Undefined,
              ret |-> HashMapKeys(map), pre |-> map]
  /\ nops' = nops + 1
  /\ UNCHANGED <<map, ref, model>>

ValuesCall ==
  /\ snap' = [op |-> "values", seq |-> HashMapValues(map)]
  /\ last' = [op |-> "values", key |-> << >>, value |-> Undefined,
              ret |-> HashMapValues(map), pre |-> map]
  /\ nops' = nops + 1
  /\ UNCHANGED <<map, ref, model>>

EntriesCall ==
  /\ snap' = [op |-> "entries", seq |-> HashMapEntries(map)]
  /\ last' = [op |-> "entries", key |-> << >>, value |-> Undefined,
              ret |-> HashMapEntries(map), pre |-> map]
  /\ nops' = nops + 1
  /\ UNCHANGED <<map, ref, model>>

DoGet == nops < MaxCalls /\ \E k \in Keys : GetCall(k)
DoHas == nops < MaxCalls /\ \E k \in Keys : HasCall(k)
DoLength == nops < MaxCalls /\ LengthCall
DoKeys == nops < MaxCalls /\ KeysCall
DoValues == nops < MaxCalls /\ ValuesCall
DoEntries == nops < MaxCalls /\ EntriesCall

\* Any load factor, and resize called directly.
InitAny ==
  /\ \E c \in InitCapacities, lf \in LoadFactors :
       /\ map = NewHashMap(c, lf[1], lf[2])
       /\ last = NoCall @@ [pre |-> NewHashMap(c, lf[1], lf[2])]
  /\ ref = NewHashMap(RefCapacity, LoadFactorNum, LoadFactorDen)
  /\ model = EmptyModel
  /\ nops = 0
  /\ snap = NoSnapshot

\* test.resize(c)
ResizeCall(c) ==
  /\ map' = Resize(map, c)
  /\ ref' = ref
  /\ model' = model
  /\ last' = [op |-> "resize", key |-> << >>, value |-> Undefined,
              ret |-> FALSE, pre |-> map]
  /\ nops' = nops + 1
  /\ snap' = snap

AnySet ==
  /\ nops < MaxCalls
  /\ \E k \in Keys, v \in Values :
       Set(map, k, v).capacity <= MaxCapacity /\ SetCall(k, v)
AnyRemove == nops < MaxCalls /\ \E k \in Keys : RemoveCall(k)
AnyClear == nops < MaxCalls /\ ClearCall
AnyResize ==
  /\ nops < MaxCalls
  /\ \E c \in ResizeCapacities :
       Resize(map, c).capacity <= MaxCapacity /\ ResizeCall(c)

NextAny == AnySet \/ AnyRemove \/ AnyClear \/ AnyResize

SpecAny == InitAny /\ [][NextAny]_vars

\* The reading calls among set, remove and clear.
NextReads ==
  \/ AnySet \/ AnyRemove \/ AnyClear
  \/ DoGet \/ DoHas \/ DoLength \/ DoKeys \/ DoValues \/ DoEntries

SpecReads == Init /\ [][NextReads]_vars

\* ------------------------------------------------------------------ claims

\* The keys stored in m: the keys of the nodes reachable from the bucket array.
StoredKeys(m) == {Nodes(m)[i].key : i \in 1..Len(Nodes(m))}

\* C1: after any sequence of set, remove and clear calls, with any number of
\* load-factor resizes in between, get(k) returns the value of the most recent
\* set(k, _) for every key k set and not removed or cleared since.
GetReturnsLastSet == \A k \in DOMAIN model : Get(map, k) = model[k]

\* C1 witness: a resize has happened, a stored key has just been set again to
\* another value, and a second key shares its bucket.
GetReturnsLastSetWitness ==
  /\ map.resizes > 0
  /\ last.op = "set"
  /\ Has(last.pre, last.key)
  /\ Get(last.pre, last.key) # last.value
  /\ Len(map.buckets[hash(last.key, map.capacity)]) >= 2

\* C2: size, the value length() returns, equals the number of entries
\* reachable across all chains, which is the number of distinct keys stored.
SizeIsEntryCount ==
  /\ Length(map) = Len(Nodes(map))
  /\ Len(Nodes(map)) = Cardinality(DOMAIN model)

\* C3: set(key, value) of a key already stored overwrites the value in place,
\* creates no second entry and leaves length() as it was before the call.
SetExistingKeepsLength ==
  (last.op = "set" /\ Has(last.pre, last.key)) =>
    /\ Get(map, last.key) = last.value
    /\ Len(Nodes(map)) = Len(Nodes(last.pre))
    /\ Length(map) = Length(last.pre)

\* C4: each stored key appears in at most one entry of the whole bucket array,
\* and that entry is in the chain of bucket hash(key) under the current
\* capacity.
OneEntryPerKeyInItsBucket ==
  /\ \A i \in 1..Len(Nodes(map)) : \A j \in 1..Len(Nodes(map)) :
       Nodes(map)[i].key = Nodes(map)[j].key => i = j
  /\ \A b \in DOMAIN map.buckets : \A j \in 1..Len(map.buckets[b]) :
       hash(map.buckets[b][j].key, map.capacity) = b
  /\ DOMAIN map.buckets = 0..(map.capacity - 1)
  /\ StoredKeys(map) = DOMAIN model

\* C4 witness: two resizes have rehashed the entries, and two keys share a
\* bucket of the resized array while a third lives elsewhere.
OneEntryPerKeyInItsBucketWitness ==
  /\ map.resizes >= 2
  /\ Len(Nodes(map)) >= 3
  /\ \E b \in DOMAIN map.buckets : Len(map.buckets[b]) = 2

\* C5: has(k) is true exactly when there was a set(k, _) with no later
\* remove(k) (nor clear), for every key, also one that shares its bucket with
\* other keys.
HasIffSetAndNotRemoved == \A k \in Keys : Has(map, k) <=> k \in DOMAIN model

\* C5 witness: a stored key has just been removed from a bucket in which
\* another key stays.
HasIffSetAndNotRemovedWitness ==
  /\ last.op = "remove"
  /\ last.ret
  /\ ~Has(map, last.key)
  /\ \E j \in DOMAIN model :
       /\ hash(j, map.capacity) = hash(last.key, map.capacity)
       /\ Has(map, j)

\* C6: remove(k) of a stored key returns true and decrements length() by one;
\* a second remove(k) right after it returns false and leaves length()
\* unchanged.
RemoveTwice ==
  (last.op = "remove" /\ Has(last.pre, last.key)) =>
    /\ last.ret
    /\ Length(map) = Length(last.pre) - 1
    /\ ~Remove(map, last.key).ret
    /\ Length(Remove(map, last.key).map) = Length(map)

\* C6 witness: a key has just been removed from the middle or the tail of a
\* chain.
RemoveTwiceWitness ==
  /\ last.op = "remove"
  /\ last.ret
  /\ FindNode(last.pre.buckets[hash(last.key, last.pre.capacity)], last.key) >= 2

\* C7: get, has and length() give the same results on a map that resized
\* during the calls and on a map of a capacity so large that it never resized.
ResizeIsTransparent ==
  (map.resizes > 0 /\ ref.resizes = 0) =>
    /\ \A k \in Keys : Get(map, k) = Get(ref, k) /\ Has(map, k) = Has(ref, k)
    /\ Length(map) = Length(ref)

\* C8, as stated: of 13 insertions of distinct single-character keys into a
\* map of capacity 16 and load factor 0.75, the 13th triggers the one resize,
\* to capacity 32, and all keys stay retrievable.
ThirteenthInsertionResizes ==
  /\ nops <= 12 => (map.resizes = 0 /\ map.capacity = DefaultCapacity)
  /\ nops = 13 => (map.resizes = 1 /\ map.capacity = 2 * DefaultCapacity)
  /\ \A k \in DOMAIN model : Get(map, k) = model[k]

\* C8, amended: the first 13 insertions trigger no resize; the 14th triggers
\* exactly one, to capacity 32, and all keys stay retrievable.
FourteenthInsertionResizes ==
  /\ nops <= 13 => (map.resizes = 0 /\ map.capacity = DefaultCapacity)
  /\ nops = 14 => (map.resizes = 1 /\ map.capacity = 2 * DefaultCapacity)
  /\ Cardinality(DOMAIN model) = nops
  /\ \A k \in DOMAIN model : Get(map, k) = model[k]

\* C8 witness: the 14th distinct key has just been inserted.
FourteenthInsertionResizesWitness ==
  /\ nops = 14
  /\ last.op = "set"
  /\ last.pre.capacity = DefaultCapacity
  /\ Len(Nodes(map)) = 14

\* C9: after clear(), length() is 0, get(k) is not-found and has(k) false for
\* every key, the bucket array has exactly capacity empty slots, and capacity
\* and loadFactor are as before the call.
ClearEmptiesTheMap ==
  last.op = "clear" =>
    /\ Length(map) = 0
    /\ \A k \in Keys : Get(map, k) = Undefined /\ ~Has(map, k)
    /\ DOMAIN map.buckets = 0..(map.capacity - 1)
    /\ \A b \in DOMAIN map.buckets : map.buckets[b] = << >>
    /\ map.capacity = last.pre.capacity
    /\ map.lfNum = last.pre.lfNum
    /\ map.lfDen = last.pre.lfDen

\* C9 witness: clear() has just been called on a map that had resized and
\* held several keys.
ClearEmptiesTheMapWitness ==
  /\ last.op = "clear"
  /\ last.pre.resizes > 0
  /\ Len(Nodes(last.pre)) >= 2

\* C10: keys(), values() and entries() have the same length, entries()[i] is
\* (keys()[i], values()[i]), keys() has no duplicates, and its keys are
\* exactly the keys for which has is true.
EnumerationsAgree ==
  /\ Len(HashMapKeys(map)) = Len(HashMapValues(map))
  /\ Len(HashMapKeys(map)) = Len(HashMapEntries(map))
  /\ \A i \in 1..Len(HashMapEntries(map)) :
       HashMapEntries(map)[i] = <<HashMapKeys(map)[i], HashMapValues(map)[i]>>
  /\ \A i \in 1..Len(HashMapKeys(map)) : \A j \in 1..Len(HashMapKeys(map)) :
       HashMapKeys(map)[i] = HashMapKeys(map)[j] => i = j
  /\ {HashMapKeys(map)[i] : i \in 1..Len(HashMapKeys(map))}
       = {k \in Keys : Has(map, k)}

\* C10 witness: three keys are stored, two of them in one chain with
\* different values.
EnumerationsAgreeWitness ==
  /\ Len(HashMapKeys(map)) >= 3
  /\ \E b \in DOMAIN map.buckets :
       /\ Len(map.buckets[b]) >= 2
       /\ map.buckets[b][1].value # map.buckets[b][2].value

\* C11: calling set(k, v) a second time with the same (k, v) leaves the map
\* as it was after the first call: same capacity, same size, same chains.
SetIsIdempotent ==
  last.op = "set" => Fields(Set(map, last.key, last.value)) = Fields(map)

\* C12: get, has and remove of a key that is not stored address a slot of the
\* bucket array and so do not throw; get returns undefined, has returns false,
\* remove returns false and leaves size, capacity and every chain unchanged.
AbsentKeyIsNotFound ==
  /\ \A k \in Keys \ DOMAIN model :
       /\ hash(k, map.capacity) \in DOMAIN map.buckets
       /\ Get(map, k) = Undefined
       /\ ~Has(map, k)
       /\ ~Remove(map, k).ret
       /\ Fields(Remove(map, k).map) = Fields(map)
  /\ (last.op = "remove" /\ last.key \notin StoredKeys(last.pre)) =>
       (~last.ret /\ Fields(map) = Fields(last.pre))

\* C12 witness: remove has just been called with a key that is not stored and
\* whose bucket holds other keys, on a map that has resized.
AbsentKeyIsNotFoundWitness ==
  /\ last.op = "remove"
  /\ ~last.ret
  /\ map.resizes > 0
  /\ Len(map.buckets[hash(last.key, map.capacity)]) >= 2

\* C13: hash(key) is an integer in [0, capacity) for every key, the empty one
\* included, and every capacity >= 1, so set never throws its out-of-bounds
\* error.
HashInRange ==
  /\ ~map.thrown
  /\ \A k \in Keys : hash(k, map.capacity) \in 0..(map.capacity - 1)
  /\ \A c \in {map.capacity, last.pre.capacity, ref.capacity} :
       \A k \in Keys \cup ScenarioKeys : hash(k, c) \in 0..(c - 1)

\* C13 witness: the two-character key has just been set in a map that has
\* resized to four slots or more.
HashInRangeWitness ==
  /\ last.op = "set"
  /\ last.key = <<97, 98>>
  /\ map.resizes > 0
  /\ map.capacity >= 4
  /\ Has(map, <<97, 98>>)

\* The (key, value) pairs stored in m.
Pairs(m) == {<<Nodes(m)[i].key, Nodes(m)[i].value>> : i \in 1..Len(Nodes(m))}

\* What C14 says of the map after, reached by a resize of the map before.
Preserved(before, after) ==
  /\ Pairs(after) = Pairs(before)
  /\ Len(Nodes(after)) = Len(Nodes(before))
  /\ after.size = Len(Nodes(after))

\* C14: a resize, called directly or by set, keeps the stored (key, value)
\* pairs, loses and duplicates none, and leaves size equal to the number of
\* stored entries.
ResizePreservesEntries ==
  /\ last.op = "resize" => Preserved(last.pre, map)
  /\ (last.op = "set" /\ NeedsResize(last.pre)) =>
       Preserved(last.pre, Resize(last.pre, last.pre.capacity * 2))

\* C14 witness: a direct resize of a map of three entries or more, two of
\* them in one chain, during which a re-inserting set resized again.
ResizePreservesEntriesWitness ==
  /\ last.op = "resize"
  /\ Len(Nodes(last.pre)) >= 3
  /\ \E b \in DOMAIN last.pre.buckets : Len(last.pre.buckets[b]) >= 2
  /\ map.maxDepth >= 2

\* The key of the last set is stored in the bucket of its hash under the
\* capacity the call left.
PlacedByNewCapacity ==
  \E j \in 1..Len(map.buckets[hash(last.key, map.capacity)]) :
    map.buckets[hash(last.key, map.capacity)][j].key = last.key

\* C15, as stated, for the positive load factors: set changes capacity
\* exactly when size / capacity > loadFactor at entry; the capacity after the
\* call is then twice the capacity before it, and the key is placed by its
\* hash under the new capacity.
SetDoublesCapacity ==
  (last.op = "set" /\ map.lfNum > 0) =>
    /\ (map.capacity # last.pre.capacity) <=> NeedsResize(last.pre)
    /\ NeedsResize(last.pre) => map.capacity = 2 * last.pre.capacity
    /\ PlacedByNewCapacity

RECURSIVE Pow2(_)
Pow2(r) == IF r <= 0 THEN 1 ELSE 2 * Pow2(r - 1)

\* C15, amended: set changes capacity exactly when size / capacity >
\* loadFactor at entry; the capacity after the call is then the capacity
\* before it doubled once for each resize of the call, which is exactly twice
\* under the load factor 0.75, and the key is placed by its hash under the
\* new capacity.
SetGrowsCapacity ==
  last.op = "set" =>
    /\ (map.capacity # last.pre.capacity) <=> NeedsResize(last.pre)
    /\ (map.resizes > last.pre.resizes) <=> NeedsResize(last.pre)
    /\ map.capacity = last.pre.capacity * Pow2(map.resizes - last.pre.resizes)
    /\ (map.lfNum = LoadFactorNum /\ map.lfDen = LoadFactorDen /\ NeedsResize(last.pre))
         => map.capacity = 2 * last.pre.capacity
    /\ PlacedByNewCapacity

\* C15 witness: a set has just resized a map of load factor 0.75 holding two
\* entries or more, and the key it placed would hash elsewhere under the old
\* capacity.
SetGrowsCapacityWitness ==
  /\ last.op = "set"
  /\ map.lfNum = LoadFactorNum /\ map.lfDen = LoadFactorDen
  /\ NeedsResize(last.pre)
  /\ Len(Nodes(last.pre)) >= 2
  /\ hash(last.key, last.pre.capacity) # hash(last.key, map.capacity)

\* C16: on a map of load factor 0.75, during a resize triggered by set's
\* doubling no re-inserting set triggers a further resize: at most one resize
\* is in progress at any time.
NoNestedResize == last.op = "set" => map.maxDepth <= 1

\* C16 witness: a set has just resized a map of three entries or more.
NoNestedResizeWitness ==
  /\ last.op = "set"
  /\ map.maxDepth = 1
  /\ Len(Nodes(last.pre)) >= 3

\* The chain without the nodes of key k, the others in their order.
Others(chain, k) == SelectSeq(chain, LAMBDA n : n.key # k)

\* C17: remove(k) leaves has(j) and get(j) of every other key j as they were,
\* keeps the order of the other entries of k's chain, leaves every other
\* bucket untouched and does not change capacity.
RemoveAffectsOnlyKey ==
  last.op = "remove" =>
    /\ \A j \in Keys \ {last.key} :
         Has(map, j) = Has(last.pre, j) /\ Get(map, j) = Get(last.pre, j)
    /\ map.capacity = last.pre.capacity
    /\ DOMAIN map.buckets = DOMAIN last.pre.buckets
    /\ \A b \in DOMAIN map.buckets :
         IF b = hash(last.key, map.capacity)
         THEN map.buckets[b] = Others(last.pre.buckets[b], last.key)
         ELSE map.buckets[b] = last.pre.buckets[b]

\* Position of the removed key in its chain before the last call.
RemovedAt ==
  FindNode(last.pre.buckets[hash(last.key, last.pre.capacity)], last.key)

\* C17 witness: the middle node of a chain of three has just been removed.
RemoveAffectsOnlyKeyWitness ==
  /\ last.op = "remove"
  /\ last.ret
  /\ RemovedAt = 2
  /\ Len(last.pre.buckets[hash(last.key, last.pre.capacity)]) = 3

\* C19: set and resize terminate under every load factor: each resize entered
\* within another one re-inserts fewer entries than that one, so the nesting
\* of resizes is at most one deeper than the number of entries stored at the
\* call, and no resize is left in progress.
SetAndResizeTerminate ==
  /\ map.descends
  /\ map.depth = 0
  /\ map.enclosing = NoResize
  /\ last.op \in {"set", "resize"} => map.maxDepth <= Len(Nodes(last.pre)) + 1

\* C19 witness: a call has just returned during which three resizes were in
\* progress at once.
SetAndResizeTerminateWitness ==
  /\ last.op \in {"set", "resize"}
  /\ map.maxDepth >= 3
  /\ map.depth = 0

\* C20: size is never smaller than the number of entries reachable across
\* all chains, and never negative.
SizeAtLeastEntries ==
  /\ map.size >= Len(Nodes(map))
  /\ map.size >= 0

\* C20 witness: a stored key has just been removed from a map whose size
\* exceeds its number of entries, after a resize.
SizeAtLeastEntriesWitness ==
  /\ last.op = "remove"
  /\ last.ret
  /\ map.resizes > 0
  /\ map.size > Len(Nodes(map))
  /\ Len(Nodes(map)) >= 1

ReadOps == {"get", "has", "length", "keys", "values", "entries"}
WriteOps == {"set", "remove", "clear"}

\* C18: get, has, length, keys, values and entries leave capacity,
\* loadFactor, size and every chain as they were, and the array returned by
\* keys, values or entries is not changed by a later set, remove or clear.
ReadsDoNotMutate ==
  [][ /\ (nops' = nops + 1 /\ last'.op \in ReadOps) => Fields(map') = Fields(map)
      /\ (nops' = nops + 1 /\ last'.op \in WriteOps) => snap' = snap
    ]_vars

\* C18 witness: the caller holds the array of an entries() call, and a set
\* made after it has changed what entries() would return now.
ReadsDoNotMutateWitness ==
  /\ snap.op = "entries"
  /\ Len(snap.seq) >= 2
  /\ last.op = "set"
  /\ snap.seq # HashMapEntries(map)
  /\ snap.seq = HashMapEntries(last.pre)
====
